---- MODULE Spec2Model ----
(***************************************************************************)
(* Model of google_scraper.py: main() and the pagination loop of           *)
(* scrape_stock(), with the remote site, the network and the file system   *)
(* as the environment.                                                     *)
(*                                                                         *)
(* One step of the model is one stretch of the script between two network  *)
(* requests (or up to the end of the process).  Strings are modelled as    *)
(* tuples of tokens.  The site has a list of results for the query and     *)
(* shows it on lastPage pages chained by "next" anchors; how many results  *)
(* a page shows, and whether one of its containers is malformed, is        *)
(* decided when the page is served.  Every GET can raise.                  *)
(***************************************************************************)
EXTENDS Integers, Sequences, FiniteSets

VARIABLES
    pc,            \* position of the script: "main", "loop", "get", "records", "imgget", "exit"
    exitCode,      \* exit status of the process once pc = "exit" (-1 while running)
    finished,      \* TRUE once main() printed "Finished."
    folder,        \* TRUE iff the directory output_folder exists on disk
    csv,           \* the file at output_csv_fp: [exists, header, rows]
    files,         \* the paths of the image files on disk
    max_images,    \* configuration variable max_images
    lastPage,      \* the site: number of result pages chained by "next" links
    results,       \* the site: the list of results for the query
    url,           \* scrape_stock: url
    soup,          \* scrape_stock: soup, reduced to what is read after the extraction:
                   \* [bound, next], bound = FALSE before the first assignment
    image_list,    \* scrape_stock: image_list of the current page
    idx,           \* position of the for loop in image_list (next entry to process)
    num_images,    \* scrape_stock: num_images
    cur_page,      \* scrape_stock: cur_page
    fails,         \* failed GETs of the page fetch in progress (0 outside of one)
    pageGets,      \* history: addresses of the page fetches started, in order
    pageLens,      \* the site: number of results on each page served and extracted
    rowPage,       \* history: for each row written, the index in pageLens of its page
    imgGets,       \* history: the image requests issued: [rank, url, path, outcome]
    imgWrites,     \* history: the image files written: [rank, path]
    navCalls,      \* history: the calls of scrape_next_link: [bound, next, result]
    csv0,          \* history: the file at output_csv_fp when main() started
    files0,        \* history: the image files on disk when main() started
    exhausted,     \* history: number of page fetches that failed 6 times
    trace          \* TRUE iff the histories of the page fetches are kept

vars == <<pc, exitCode, finished, folder, csv, files, max_images, lastPage, results,
          url, soup, image_list, idx, num_images, cur_page, fails,
          pageGets, pageLens, rowPage, imgGets, imgWrites, navCalls, csv0, files0,
          exhausted, trace>>

----------------------------------------------------------------------------
(* Bounds of the model *)

MaxTarget == 5      \* max_images ranges over 1..MaxTarget
MaxPages == 2       \* the site chains at most MaxPages pages
MaxPerPage == 3     \* result containers per page
MaxExhausted == 1   \* page fetches that exhaust their retries in one run

----------------------------------------------------------------------------
(* Strings of the script *)

query == "puppy"

RETRIES_six == 5 + 1

RETRIES == 5

NoElement == <<>>    \* find() returned None / the attribute is missing

ImageSrcs == {<<"u1">>, <<"u2">>}

\* result containers <div class="lIMUZd"> with their img src and their
\* a href, "/url?q=" + info address [+ tracking suffix]
Element(src, info, tracking) ==
    [img |-> src, a |-> <<"/url?q=", info>> \o tracking]

\* the result lists the site can have for the query (repeated cyclically):
\* the two image addresses alternating, or each twice in a row
ResultLists ==
    { << Element(<<"u1">>, "i1", <<"&sa=U&ved=2", "abc">>),
         Element(<<"u2">>, "i2", <<>>),
         Element(<<"u1">>, "i2", <<>>),
         Element(<<"u2">>, "i1", <<"&sa=U&ved=2", "abc">>) >>,
      << Element(<<"u1">>, "i1", <<"&sa=U&ved=2", "abc">>),
         Element(<<"u1">>, "i2", <<>>),
         Element(<<"u2">>, "i2", <<>>),
         Element(<<"u2">>, "i1", <<"&sa=U&ved=2", "abc">>) >> }

\* containers without img element, without anchor
BadElements == {[img |-> NoElement, a |-> <<"/url?q=", "i1">>],
                [img |-> <<"u1">>, a |-> NoElement]}

RECURSIVE Sum(_)
Sum(q) == IF q = <<>> THEN 0 ELSE Head(q) + Sum(Tail(q))

\* the n results that follow the first `served` ones
Slice(served, n) ==
    [i \in 1..n |-> results[((served + i - 1) % Len(results)) + 1]]

\* sequence q with element e inserted at position k
InsertAt(q, k, e) ==
    [i \in 1..(Len(q) + 1) |->
        IF i < k THEN q[i] ELSE IF i = k THEN e ELSE q[i - 1]]

\* the contents a page can have when `served` results were shown on the
\* pages before it: up to MaxPerPage containers, the next results in
\* order, at most one of the containers being a malformed one
PageContents(served) ==
    {Slice(served, n) : n \in 0..MaxPerPage}
        \cup {InsertAt(Slice(served, n - 1), k, e) :
                 <<n, k, e>> \in {t \in (1..MaxPerPage) \X (1..MaxPerPage) \X BadElements :
                                     t[2] <= t[1]}}

\* r.content of an image response: empty or not
Bytes == {<<>>, <<"jpeg">>}

output_csv_fields == <<"rank_pos", "image_url", "image_info_url", "download_file">>

NoFile == [exists |-> FALSE, header |-> <<>>, rows |-> <<>>]

Unbound == [bound |-> FALSE, next |-> NoElement]

----------------------------------------------------------------------------
(* Pure functions of the script *)

\* query_url(term): url_opening + term + url_ending
query_url(term) ==
    <<"https://www.google.com/search?q=", term, "&source=lnms&tbm=isch">>

\* the remote site: the page an address denotes, and the href of the
\* "next" anchor (class frGj1b) of page p, absent on the last page
ServerPage(u) == IF u = query_url(query) THEN 1 ELSE u[2][2]

NextHref(p) == IF p < lastPage THEN <<"/search?start=", p + 1>> ELSE NoElement

\* element.img['src'] or element.a["href"] raises TypeError on a container
\* without img or without a
Malformed(e) == e.img = NoElement \/ e.a = NoElement

\* str.split(sep, 1)[0]: the tokens before the first occurrence of sep
RECURSIVE BeforeSep(_, _)
BeforeSep(s, sep) ==
    IF s = <<>> \/ Head(s) = sep THEN <<>>
    ELSE <<Head(s)>> \o BeforeSep(Tail(s), sep)

\* element.a["href"][7:] with the URL variables removed
InfoUrl(href) == BeforeSep(Tail(href), "&sa=U&ved=2")

\* scrape_images(page) raises iff some container is malformed; elements
\* are the containers found by find_all
ScrapeRaises(elements) == \E i \in 1..Len(elements) : Malformed(elements[i])

scrape_images(elements) ==
    [i \in 1..Len(elements) |->
        [image_url |-> elements[i].img,
         image_info_url |-> InfoUrl(elements[i].a)]]

\* scrape_next_link(page, url, pagination_index): raises on an unbound page
\* (UnboundLocalError at the call) and on a page without "next" anchor
\* (TypeError: None['href'])
NextLinkRaises(page) == ~page.bound \/ page.next = NoElement

scrape_next_link(page) == <<"https://www.google.com", page.next>>

NavResult(page) ==
    IF ~page.bound THEN <<"UnboundLocalError">>
    ELSE IF page.next = NoElement THEN <<"TypeError">>
    ELSE scrape_next_link(page)

\* hashlib.sha1(image_url.encode('utf-8')).hexdigest(): one digest per address
hexdigest(image_url) == <<"sha1">> \o image_url

\* image_fp = os.path.join(folderp, hash_url + '.jpg')
image_fp(image_url) == <<query, "/">> \o hexdigest(image_url) \o <<".jpg">>

\* a metadata file left by an earlier run of the same query
OldFile == [exists |-> TRUE, header |-> output_csv_fields,
            rows |-> <<[rank_pos |-> 1, image_url |-> <<"u2">>,
                        image_info_url |-> <<"i2">>,
                        download_file |-> image_fp(<<"u2">>)]>>]

\* variant: the test for an existing CSV file is lost
CsvIsFile_never(f) == FALSE

\* os.path.isfile(output_csv_fp)
CsvIsFile(f) == f.exists

\* variant: the loop goes on while num_images <= max_images
LoopCond_le(n, m) == n <= m

\* the condition of the while loop
LoopCond(n, m) == n < m

\* variant: the rank is the position of the record in its page
Row_pagepos(n, i, image) ==
    [rank_pos |-> i,
     image_url |-> image.image_url,
     image_info_url |-> image.image_info_url,
     download_file |-> image_fp(image.image_url)]

\* variant: the file name is the digest of the info address
Row_infopath(n, i, image) ==
    [rank_pos |-> n,
     image_url |-> image.image_url,
     image_info_url |-> image.image_info_url,
     download_file |-> image_fp(image.image_info_url)]

\* the CSV row of the record at position i of the page, n records counted
Row(n, i, image) ==
    [rank_pos |-> n,
     image_url |-> image.image_url,
     image_info_url |-> image.image_info_url,
     download_file |-> image_fp(image.image_url)]

\* variant: the row is not written
writerow_lost(f, row) == f

\* output_csv.writerow(row)
writerow(f, row) == [f EXCEPT !.rows = Append(@, row)]

\* variant: the image is downloaded whether or not its file exists
NotDownloaded_always(fp, fs) == TRUE

\* not os.path.isfile(image_fp)
NotDownloaded(fp, fs) == fp \notin fs

\* variant: the content is written whatever its length
HasContent_always(content) == TRUE

\* len(r.content) > 0
HasContent(content) == Len(content) > 0

----------------------------------------------------------------------------
(* Initial states: the configuration, the site and the disk *)

Start ==
    /\ pc = "main"
    /\ exitCode = -1
    /\ finished = FALSE
    /\ folder \in BOOLEAN
    /\ csv \in {NoFile, OldFile}
    /\ files \in SUBSET {image_fp(u) : u \in ImageSrcs}
    /\ (~folder => csv = NoFile /\ files = {})
    /\ max_images \in 1..MaxTarget
    /\ lastPage \in 1..MaxPages
    /\ results \in ResultLists
    /\ url = <<>>
    /\ soup = Unbound
    /\ image_list = <<>>
    /\ idx = 1
    /\ num_images = 0
    /\ cur_page = 1
    /\ fails = 0
    /\ pageGets = <<>>
    /\ pageLens = <<>>
    /\ rowPage = <<>>
    /\ imgGets = <<>>
    /\ imgWrites = <<>>
    /\ navCalls = <<>>
    /\ csv0 = csv
    /\ files0 = files
    /\ exhausted = 0

\* a run whose page fetches are recorded
Init == Start /\ trace = TRUE

\* a run observed without the histories of its page fetches, in which any
\* number of page fetches can fail
LiveInit == Start /\ trace = FALSE

----------------------------------------------------------------------------
(* Steps of the script *)

\* history h with entry e, when histories are kept
Log(h, e) == IF trace THEN Append(h, e) ELSE h

\* cur_page += 1; the script never reads cur_page (scrape_next_link ignores
\* its pagination_index), the model counts it up to MaxCurPage
MaxCurPage == MaxPages + MaxExhausted + 2

Increment(n) == IF n < MaxCurPage THEN n + 1 ELSE n

\* an unhandled exception ends the process with a traceback
Crash == pc' = "exit" /\ exitCode' = 1

\* main(): create the folder, refuse an existing CSV file, else write the
\* header and enter scrape_stock up to the first test of the while loop
main ==
    /\ pc = "main"
    /\ folder' = TRUE
    /\ IF CsvIsFile(csv)
       THEN /\ pc' = "exit"
            /\ exitCode' = 0
            /\ UNCHANGED <<csv, url, num_images, cur_page>>
       ELSE /\ csv' = [exists |-> TRUE, header |-> output_csv_fields, rows |-> <<>>]
            /\ url' = query_url(query)
            /\ num_images' = 0
            /\ cur_page' = 1
            /\ pc' = "loop"
            /\ UNCHANGED exitCode
    /\ UNCHANGED <<finished, files, max_images, lastPage, results, soup, image_list,
                   idx, fails, pageGets, pageLens, rowPage, imgGets,
                   imgWrites, navCalls, csv0, files0, exhausted, trace>>

\* while num_images < max_images: start the fetch of url; when the test is
\* false scrape_stock returns and main prints "Finished."
WhileTest ==
    /\ pc = "loop"
    /\ IF LoopCond(num_images, max_images)
       THEN /\ pc' = "get"
            /\ pageGets' = Log(pageGets, url)
            /\ UNCHANGED <<exitCode, finished>>
       ELSE /\ pc' = "exit"
            /\ exitCode' = 0
            /\ finished' = TRUE
            /\ UNCHANGED pageGets
    /\ UNCHANGED <<folder, csv, files, max_images, lastPage, results, url, soup,
                   image_list, idx, num_images, cur_page, fails, pageLens,
                   rowPage, imgGets, imgWrites, navCalls, csv0, files0,
                   exhausted, trace>>

\* url = scrape_next_link(soup, url, cur_page); cur_page += 1
Navigate ==
    /\ navCalls' = Log(navCalls, [bound |-> soup.bound, next |-> soup.next,
                                  result |-> NavResult(soup)])
    /\ IF NextLinkRaises(soup)
       THEN Crash /\ UNCHANGED <<url, cur_page>>
       ELSE /\ url' = scrape_next_link(soup)
            /\ cur_page' = Increment(cur_page)
            /\ pc' = "loop"
            /\ UNCHANGED exitCode

\* requests.get(url) returns: parse the page, extract its image list
PageOk ==
    /\ pc = "get"
    /\ soup' = [bound |-> TRUE, next |-> NextHref(ServerPage(url))]
    /\ fails' = 0
    /\ \E content \in PageContents(Sum(pageLens)) :
         IF ScrapeRaises(content)
         THEN Crash /\ UNCHANGED <<image_list, idx, pageLens>>
         ELSE /\ image_list' = scrape_images(content)
              /\ pageLens' = Append(pageLens, Len(image_list'))
              /\ idx' = 1
              /\ pc' = "records"
              /\ UNCHANGED exitCode
    /\ UNCHANGED <<finished, folder, csv, files, max_images, lastPage, results, url,
                   num_images, cur_page, pageGets, rowPage, imgGets,
                   imgWrites, navCalls, csv0, files0, exhausted, trace>>

\* requests.get(url) raises: sleep and retry up to 5 times, then move on
\* to the next link of the page held in soup
PageFail ==
    /\ pc = "get"
    /\ IF fails < RETRIES
       THEN /\ fails' = fails + 1
            /\ UNCHANGED <<pc, exitCode, url, cur_page, navCalls, exhausted>>
       ELSE /\ trace => exhausted < MaxExhausted
            /\ exhausted' = IF trace THEN exhausted + 1 ELSE exhausted
            /\ fails' = 0
            /\ Navigate
    /\ UNCHANGED <<finished, folder, csv, files, max_images, lastPage, results, soup,
                   image_list, idx, num_images, pageGets, pageLens, rowPage,
                   imgGets, imgWrites, csv0, files0, trace>>

\* one pass of the for loop up to the image request: count the record,
\* write its row, test whether its file is on disk
ProcessRecord ==
    /\ pc = "records"
    /\ idx <= Len(image_list)
    /\ num_images' = num_images + 1
    /\ csv' = writerow(csv, Row(num_images', idx, image_list[idx]))
    /\ rowPage' = Append(rowPage, Len(pageLens))
    /\ IF NotDownloaded(image_fp(image_list[idx].image_url), files)
       THEN pc' = "imgget" /\ UNCHANGED idx
       ELSE pc' = "records" /\ idx' = idx + 1
    /\ UNCHANGED <<exitCode, finished, folder, files, max_images, lastPage,
                   results, url, soup, image_list, cur_page, fails, pageGets, pageLens,
                   imgGets, imgWrites, navCalls, csv0, files0, exhausted, trace>>

\* the request of the image of the record being processed, with its outcome
ImageRequest(outcome) ==
    [rank |-> num_images, url |-> image_list[idx].image_url,
     path |-> image_fp(image_list[idx].image_url), outcome |-> outcome]

\* requests.get(image_url) returns: write the content unless it is empty
ImageOk ==
    /\ pc = "imgget"
    /\ \E content \in Bytes :
         /\ imgGets' = Append(imgGets,
                ImageRequest(IF content = <<>> THEN "empty" ELSE "bytes"))
         /\ IF HasContent(content)
            THEN /\ files' = files \cup {image_fp(image_list[idx].image_url)}
                 /\ imgWrites' = Append(imgWrites,
                        [rank |-> num_images,
                         path |-> image_fp(image_list[idx].image_url)])
            ELSE UNCHANGED <<files, imgWrites>>
    /\ idx' = idx + 1
    /\ pc' = "records"
    /\ UNCHANGED <<exitCode, finished, folder, csv, max_images, lastPage, results, url,
                   soup, image_list, num_images, cur_page, fails, pageGets,
                   pageLens, rowPage, navCalls, csv0, files0, exhausted, trace>>

\* requests.get(image_url) raises: nothing catches the exception
ImageFail ==
    /\ pc = "imgget"
    /\ imgGets' = Append(imgGets, ImageRequest("raise"))
    /\ Crash
    /\ UNCHANGED <<finished, folder, csv, files, max_images, lastPage, results, url,
                   soup, image_list, idx, num_images, cur_page, fails,
                   pageGets, pageLens, rowPage, imgWrites, navCalls, csv0,
                   files0, exhausted, trace>>

\* the for loop is exhausted: look up the next page
NextPage ==
    /\ pc = "records"
    /\ idx > Len(image_list)
    /\ Navigate
    /\ UNCHANGED <<finished, folder, csv, files, max_images, lastPage, results, soup,
                   image_list, idx, num_images, fails, pageGets, pageLens,
                   rowPage, imgGets, imgWrites, csv0, files0, exhausted, trace>>

Next ==
    \/ main
    \/ WhileTest
    \/ PageOk
    \/ PageFail
    \/ ProcessRecord
    \/ ImageOk
    \/ ImageFail
    \/ NextPage

Spec == Init /\ [][Next]_vars

\* the script always takes its next step: every request returns or raises
\* within its timeout
LiveSpec == LiveInit /\ [][Next]_vars /\ WF_vars(Next)

----------------------------------------------------------------------------
(* Properties *)

Last(q) == q[Len(q)]

Min(a, b) == IF a < b THEN a ELSE b

\* the run was not refused at startup: the rows of csv are those of this run
Fresh == ~csv0.exists

\* C1: if the metadata file exists when main() starts, no page or image
\* request is ever issued, the file keeps its content (no header, no row
\* is written), and the process ends with exit status 0.
C1_StartupGuard ==
    csv0.exists =>
        /\ pageGets = <<>>
        /\ imgGets = <<>>
        /\ csv = csv0
        /\ pc \in {"main", "exit"}
        /\ (pc = "exit" => exitCode = 0)

C1_Witness == csv0.exists /\ pc = "exit"

\* C2: the row of a record is in the store when the image request of the
\* record is issued, and no step removes or changes a row of the store,
\* whatever the outcome of the request (bytes, empty content, exception).
C2_RowBeforeFetch ==
    /\ [](/\ pc = "imgget" =>
               /\ Len(csv.rows) = num_images
               /\ Last(csv.rows).image_url = image_list[idx].image_url
          /\ \A i \in 1..Len(imgGets) :
               /\ imgGets[i].rank <= Len(csv.rows)
               /\ csv.rows[imgGets[i].rank].rank_pos = imgGets[i].rank
               /\ csv.rows[imgGets[i].rank].image_url = imgGets[i].url
               /\ csv.rows[imgGets[i].rank].download_file = imgGets[i].path)
    /\ [][\A k \in 1..Len(csv.rows) :
             k <= Len(csv'.rows) /\ csv'.rows[k] = csv.rows[k]]_vars

\* a run with an image written, an empty response and a failed request
C2_Witness ==
    /\ pc = "exit"
    /\ \E i, j, k \in 1..Len(imgGets) :
         /\ imgGets[i].outcome = "bytes"
         /\ imgGets[j].outcome = "empty"
         /\ imgGets[k].outcome = "raise"

\* C3: in every state of a run the ranks of the rows of the store are
\* 1, 2, ..., n in append order, n being the counter of processed records.
C3_Ranks ==
    Fresh =>
        /\ Len(csv.rows) = num_images
        /\ \A k \in 1..Len(csv.rows) : csv.rows[k].rank_pos = k

\* rows of two pages, written after a page fetch that exhausted its retries
C3_Witness ==
    /\ Fresh
    /\ exhausted >= 1
    /\ Len(pageLens) >= 2
    /\ \E k \in 1..Len(rowPage) : rowPage[k] = 1
    /\ \E k \in 1..Len(rowPage) : rowPage[k] = 2

\* C4: the number of rows written is at most max_images plus the number of
\* records of the page whose records took the count to max_images, and no
\* page is fetched and no row of a later page is written after that.
C4_UpperBound ==
    Fresh =>
        /\ Len(csv.rows) < max_images + MaxPerPage
        /\ Len(csv.rows) >= max_images =>
             /\ Len(csv.rows) <= max_images + pageLens[rowPage[max_images]]
             /\ Len(pageLens) = rowPage[max_images]
             /\ \A k \in 1..Len(rowPage) : rowPage[k] <= rowPage[max_images]
             /\ pc # "get"

\* the last page took the count past max_images and the run ended
C4_Witness ==
    /\ Fresh
    /\ pc = "exit"
    /\ Len(pageLens) >= 2
    /\ Len(csv.rows) > max_images

\* C5: when the run has ended, the number of rows written is at least the
\* minimum of max_images and the number of records available on the pages
\* of the site (of which the records of the pages received are a part).
C5_LowerBound ==
    (Fresh /\ pc = "exit") =>
        Len(csv.rows) >= Min(max_images, Sum(pageLens))

\* the result the specification names for a page without "next" anchor
NoNextPage == <<"NoNextPage">>

\* the address of the second page of the site
Page2 == <<"https://www.google.com", <<"/search?start=", 2>>>>

\* C6: with max_images = 5, three records on page 1, three on page 2 and no
\* next link on page 2 (every request answered), the run writes exactly 5
\* rows with ranks 1..5, fetches exactly two pages and calls navigation
\* exactly twice, yielding the address of page 2 and then NoNextPage.
C6_Scenario ==
    (/\ Fresh
     /\ max_images = 5
     /\ lastPage = 2
     /\ pageLens = <<3, 3>>
     /\ exhausted = 0
     /\ pc = "exit"
     /\ idx > Len(image_list))
    => /\ Len(csv.rows) = 5
       /\ \A k \in 1..Len(csv.rows) : csv.rows[k].rank_pos = k
       /\ Len(pageGets) = 2
       /\ Len(navCalls) = 2
       /\ navCalls[1].result = Page2
       /\ navCalls[2].result = NoNextPage

\* C7: whenever scrape_next_link was called on a page without "next"
\* anchor, the run is over with exit status 0 after printing "Finished."
C7_NoNextPageIsDone ==
    \A i \in 1..Len(navCalls) :
        (navCalls[i].bound /\ navCalls[i].next = NoElement) =>
            /\ pc = "exit"
            /\ exitCode = 0
            /\ finished

\* C8: when the request of the image of a record raised, the row of the
\* record is in the store, no file was written for the record, and the
\* process did not stop at that record with an error.
C8_ImageFailureSkipped ==
    \A i \in 1..Len(imgGets) :
        imgGets[i].outcome = "raise" =>
            /\ imgGets[i].rank <= Len(csv.rows)
            /\ csv.rows[imgGets[i].rank].image_url = imgGets[i].url
            /\ \A j \in 1..Len(imgWrites) : imgWrites[j].rank # imgGets[i].rank
            /\ ~(pc = "exit" /\ exitCode # 0 /\ num_images = imgGets[i].rank)

\* C9: when the fetch of page 1 has failed 6 times and page 1 of the site
\* links to page 2, the run goes on with the address of page 2, with no
\* row written and no record counted.
C9_FirstPageExhausted ==
    (/\ Fresh
     /\ lastPage >= 2
     /\ exhausted >= 1
     /\ pageLens = <<>>
     /\ Len(pageGets) = 1)
    => /\ pc = "loop"
       /\ url = Page2
       /\ csv.rows = <<>>
       /\ num_images = 0

\* C10: no image is requested and no file is written at a path where a
\* file exists (from before the run or written earlier in the run), the
\* files found at startup stay, and every processed record has its row.
C10_Idempotent ==
    /\ files0 \subseteq files
    /\ \A i \in 1..Len(imgGets) : imgGets[i].path \notin files0
    /\ \A j \in 1..Len(imgWrites) : imgWrites[j].path \notin files0
    /\ \A i \in 1..Len(imgGets) : \A j \in 1..Len(imgWrites) :
         imgWrites[j].path = imgGets[i].path =>
             imgGets[i].rank <= imgWrites[j].rank
    /\ Fresh => Len(csv.rows) = num_images
    /\ pc = "imgget" => image_fp(image_list[idx].image_url) \notin files

\* a record whose file was on disk before the run got its row, and another
\* record was downloaded
C10_Witness ==
    /\ Fresh
    /\ pc = "exit"
    /\ imgWrites # <<>>
    /\ \E k \in 1..Len(csv.rows) : csv.rows[k].download_file \in files0

\* C11: when an image request returns zero bytes, the row of the record,
\* with its computed path, is in the store, the step writes no file and
\* leaves none at the path, and the for loop goes on to the next record.
C11_EmptyContent ==
    /\ [](\A i \in 1..Len(imgGets) :
            imgGets[i].outcome = "empty" =>
                /\ imgGets[i].rank <= Len(csv.rows)
                /\ csv.rows[imgGets[i].rank].rank_pos = imgGets[i].rank
                /\ csv.rows[imgGets[i].rank].download_file = imgGets[i].path
                /\ \A j \in 1..Len(imgWrites) :
                     imgWrites[j].rank # imgGets[i].rank)
    /\ [][(Len(imgGets') = Len(imgGets) + 1 /\ Last(imgGets').outcome = "empty") =>
             /\ Last(imgGets').path \notin files'
             /\ files' = files
             /\ imgWrites' = imgWrites
             /\ csv' = csv
             /\ pc' = "records"
             /\ idx' = idx + 1
             /\ exitCode' = -1]_vars

\* an empty response was followed by the processing of a later record
C11_Witness ==
    \E i \in 1..Len(imgGets) :
        /\ imgGets[i].outcome = "empty"
        /\ imgGets[i].path \notin files
        /\ num_images > imgGets[i].rank

\* C12: rows with the same image address have the same local path, in the
\* store of the run and in the store an earlier run of the query left,
\* whatever their ranks, pages, info addresses and fetch outcomes.
C12_PathOfAddress ==
    /\ \A j, k \in 1..Len(csv.rows) :
         csv.rows[j].image_url = csv.rows[k].image_url =>
             csv.rows[j].download_file = csv.rows[k].download_file
    /\ \A j \in 1..Len(csv.rows) : \A k \in 1..Len(OldFile.rows) :
         csv.rows[j].image_url = OldFile.rows[k].image_url =>
             csv.rows[j].download_file = OldFile.rows[k].download_file

\* two rows of one address on different pages, with different info
\* addresses, the first fetched empty and the second with bytes, and a row
\* of the address of the earlier run
C12_Witness ==
    /\ Fresh
    /\ \E j, k \in 1..Len(csv.rows) :
         /\ j < k
         /\ csv.rows[j].image_url = csv.rows[k].image_url
         /\ csv.rows[j].image_info_url # csv.rows[k].image_info_url
         /\ rowPage[j] # rowPage[k]
         /\ \E i \in 1..Len(imgGets) :
              imgGets[i].rank = j /\ imgGets[i].outcome = "empty"
         /\ \E i \in 1..Len(imgGets) :
              imgGets[i].rank = k /\ imgGets[i].outcome = "bytes"
    /\ \E j \in 1..Len(csv.rows) :
         csv.rows[j].image_url = OldFile.rows[1].image_url

\* C13: every run ends, whatever requests fail (the site chains at most
\* MaxPages pages).
C13_Terminates == <>(pc = "exit")

\* C14: when a page fetch has failed 6 times and scrape_next_link returns
\* an address, that address differs from the one whose fetch failed.
C14_NewAddress ==
    [][(pc = "get" /\ exhausted' = exhausted + 1 /\ pc' = "loop") => url' # url]_vars

\* C15: one visit of a page makes at most 6 GETs (the first and 5 retries);
\* a retry follows a failed GET only while fewer than 5 retries were made;
\* the visit is given up only when the 6th GET failed; a GET that returns
\* ends the visit and starts the records of the page, whichever attempt it
\* was.
C15_BoundedRetry ==
    /\ [](fails \in 0..5 /\ (pc # "get" => fails = 0))
    /\ [][(pc = "get" /\ pc' = "get") => (fails < 5 /\ fails' = fails + 1)]_vars
    /\ [][exhausted' # exhausted => (pc = "get" /\ fails = 5 /\ pageLens' = pageLens)]_vars
    /\ [][(pc = "get" /\ pc' = "records") =>
             /\ Len(pageLens') = Len(pageLens) + 1
             /\ Len(image_list') = Last(pageLens')
             /\ idx' = 1
             /\ soup'.bound
             /\ exhausted' = exhausted
             /\ num_images' = num_images
             /\ csv' = csv]_vars

C15_Witness ==
    /\ exhausted = 1
    /\ pc = "get"
    /\ fails = 5
    /\ Len(pageLens) >= 1

\* C16: a page fetch is started, and a GET of a page is pending, only while
\* num_images < max_images; from the target on the run only finishes the
\* records of the current page and ends.
C16_NoFetchAtTarget ==
    /\ [](pc = "get" => num_images < max_images)
    /\ [](num_images >= max_images => pc \in {"records", "imgget", "loop", "exit"})
    /\ [][pageGets' # pageGets => (num_images < max_images /\ pc' = "get")]_vars
    /\ [][num_images >= max_images => (pageGets' = pageGets /\ pageLens' = pageLens)]_vars

C16_Witness ==
    /\ num_images >= max_images
    /\ finished
    /\ Len(pageGets) >= 1
    /\ Len(csv.rows) > Len(csv0.rows)

\* C17: a page whose GET returned is always processed, whatever containers
\* it holds: the run goes on to the records of the page and does not end
\* there.
C17_MalformedSkipped ==
    [][(pc = "get" /\ fails' = 0 /\ exhausted' = exhausted) =>
           (pc' = "records" /\ exitCode' = -1)]_vars

\* C18: in one run no path is written twice and no path is requested after
\* it was written; the files on disk are those found at start and those
\* written; every record gets a row with the next rank, and its image is
\* requested exactly when no file is at its path (so also after an earlier
\* record of the same path received empty content).
C18_WrittenOnce ==
    /\ [](\A j, k \in 1..Len(imgWrites) :
             imgWrites[j].path = imgWrites[k].path => j = k)
    /\ [](\A j \in 1..Len(imgWrites) : \A i \in 1..Len(imgGets) :
             imgGets[i].path = imgWrites[j].path =>
                 imgGets[i].rank <= imgWrites[j].rank)
    /\ [](files = files0 \cup {imgWrites[j].path : j \in 1..Len(imgWrites)})
    /\ [][num_images' = num_images + 1 =>
             /\ Len(csv'.rows) = Len(csv.rows) + 1
             /\ Last(csv'.rows).rank_pos = num_images'
             /\ (pc' = "imgget") <=> (Last(csv'.rows).download_file \notin files)
             /\ (pc' = "records") <=> (Last(csv'.rows).download_file \in files)]_vars

C18_Witness ==
    \E i, j \in 1..Len(imgGets) : \E k \in 1..Len(csv.rows) :
        /\ imgGets[i].path = imgGets[j].path
        /\ imgGets[i].rank < imgGets[j].rank
        /\ imgGets[i].outcome = "empty"
        /\ imgGets[j].outcome = "bytes"
        /\ k > imgGets[j].rank
        /\ csv.rows[k].download_file = imgGets[j].path
        /\ \A n \in 1..Len(imgGets) : imgGets[n].rank # k
        /\ num_images > k

====
